---- MODULE Spec2Model ----
(***************************************************************************)
(* TodoFusion task manager: the Task entity (src/Task.js), the service    *)
(* layer (src/TaskService.js) and the localStorage database DB            *)
(* (src/unnamed/part_000).                                                 *)
(*                                                                         *)
(* Conventions of the model                                                *)
(*  - a JavaScript string that the code trims, lower-cases or searches is  *)
(*    a sequence of one-character strings; enum-like strings (priority,    *)
(*    error messages, operation names) are TLA+ strings;                   *)
(*  - an ISO timestamp is the instant it denotes, counted in units of 12   *)
(*    hours (so a day is 2 units and 7*24*60*60*1000 ms are 14 units);     *)
(*  - a task id is a number: callers supply small ids, generateId()        *)
(*    returns GenBase + n for the n-th generated id;                       *)
(*  - null in an id, date or minute field is Null.                         *)
(***************************************************************************)
EXTENDS Integers, Sequences, FiniteSets, TLC

VARIABLES
  storage,    \* localStorage: the items under the TASKS and SETTINGS keys
  now,        \* the clock read by new Date()
  genCount,   \* how many ids generateId() has produced
  quota,      \* TRUE when localStorage.setItem throws
  call,       \* the last operation called and its arguments
  ret,        \* the value that operation returned
  saved,      \* what the last saveTasks() of that operation returned
  envelope,   \* the last string returned by exportData()
  sortIn,     \* the array handed to sortTasks
  sortOut,    \* the array sortTasks returned
  entity,     \* a Task instance held in memory: <<>> or <<the instance>>
  modal,      \* ModalManager: currentTaskId, isOpen
  dashboard,  \* Dashboard: currentFilter, currentSearch
  listView,   \* TaskListView: currentFilter, currentSearch, the rows of its
              \* container, its empty state, and the sidebar count badges
  searchInput,   \* the search box: its value
  debounceTimer, \* the handle initSearch() keeps, Null while undefined
  timers         \* the timeouts pending in the browser: handle, time left

vars == <<storage, now, genCount, quota, call, ret, saved, envelope, sortIn,
          sortOut, entity, modal, dashboard, listView, searchInput,
          debounceTimer, timers>>

-----------------------------------------------------------------------------
(* Bounds *)

MaxTasks == 2      \* stored tasks
MaxNow == 2        \* clock values 1..MaxNow
MaxGen == 2        \* ids generateId() may produce
MaxBulk == 2       \* length of the id sequence given to a bulk operation
MaxSortLen == 3    \* length of the array given to sortTasks
MaxStatTasks == 8  \* stored tasks when getStatistics is called
MaxMixedTasks == 3 \* stored tasks of mixed priority and due date

-----------------------------------------------------------------------------
(* Values *)

Null == -1
InvalidDate == -2
GenBase == 100
UnitsPerDay == 2
OneWeek == 14
TitleMaxLen == 200
DebounceDelay == 300  \* milliseconds
TimeStep == 100       \* milliseconds by which the time left of a timer runs down

Work == <<"w", "o", "r", "k">>
Home == <<"h", "o", "m", "e">>

-----------------------------------------------------------------------------
(* Strings *)

LowerChar(c) ==
  CASE c = "A" -> "a"
    [] c = "B" -> "b"
    [] c = "W" -> "w"
    [] OTHER -> c

toLowerCase(s) == [i \in 1..Len(s) |-> LowerChar(s[i])]

RECURSIVE TrimStart(_)
TrimStart(s) == IF s # <<>> /\ Head(s) = " " THEN TrimStart(Tail(s)) ELSE s

RECURSIVE TrimEnd(_)
TrimEnd(s) ==
  IF s # <<>> /\ s[Len(s)] = " " THEN TrimEnd(SubSeq(s, 1, Len(s) - 1)) ELSE s

trim(s) == TrimEnd(TrimStart(s))

\* String.prototype.includes
includes(s, sub) ==
  \E i \in 0..(Len(s) - Len(sub)) : SubSeq(s, i + 1, i + Len(sub)) = sub

\* Array.prototype.includes
arrayIncludes(arr, x) == \E i \in 1..Len(arr) : arr[i] = x

-----------------------------------------------------------------------------
(* JSON.  Every value the program stores is a JSON value (number, string,  *)
(* boolean, null, array, plain object), so a JSON text is represented by   *)
(* the value it denotes, wrapped to keep texts and values apart.           *)

JSONstringify(value) == [json |-> value]

JSONparse(text) == text.json

\* {...a, ...b}
Spread(a, b) ==
  [k \in DOMAIN a \cup DOMAIN b |-> IF k \in DOMAIN b THEN b[k] ELSE a[k]]

-----------------------------------------------------------------------------
(* localStorage *)

NoItem == [present |-> FALSE, text |-> JSONstringify(<<>>)]
Item(text) == [present |-> TRUE, text |-> text]

EmptyStorage == [tasks |-> NoItem, settings |-> NoItem]

-----------------------------------------------------------------------------
(* Task entity, src/Task.js *)

Priorities == {"low", "medium", "high", "urgent"}

\* JavaScript truthiness of the value v of field k
Truthy(k, v) ==
  CASE k \in {"id", "dueDate", "createdAt", "updatedAt", "completedAt",
              "estimatedTime", "actualTime"} -> v # Null
    [] k \in {"title", "description", "notes"} -> v # <<>>
    [] k = "priority" -> v # ""
    [] k = "completed" -> v
    [] OTHER -> TRUE

\* data[k] || default
OrDefault(data, k, default) ==
  IF k \in DOMAIN data /\ Truthy(k, data[k]) THEN data[k] ELSE default

\* new Task(data); toJSON() lists the same fourteen fields
Task(data) ==
  [id            |-> OrDefault(data, "id", Null),
   title         |-> OrDefault(data, "title", <<>>),
   description   |-> OrDefault(data, "description", <<>>),
   completed     |-> OrDefault(data, "completed", FALSE),
   priority      |-> OrDefault(data, "priority", "medium"),
   dueDate       |-> OrDefault(data, "dueDate", Null),
   tags          |-> OrDefault(data, "tags", <<>>),
   createdAt     |-> OrDefault(data, "createdAt", now),
   updatedAt     |-> OrDefault(data, "updatedAt", now),
   completedAt   |-> OrDefault(data, "completedAt", Null),
   estimatedTime |-> OrDefault(data, "estimatedTime", Null),
   actualTime    |-> OrDefault(data, "actualTime", Null),
   notes         |-> OrDefault(data, "notes", <<>>),
   links         |-> OrDefault(data, "links", <<>>)]

toJSON(task) == [k \in DOMAIN task |-> task[k]]

fromJSON(data) == Task(data)

\* isNaN(new Date(d).getTime())
IsNaNDate(d) == d = InvalidDate

\* validate() with the title test done on the untrimmed title
validateNoTrim(task) ==
  LET e1 == IF task.title = <<>>
            THEN <<"Title is required">> ELSE <<>>
      e2 == IF task.title # <<>> /\ Len(task.title) > TitleMaxLen
            THEN <<"Title must be less than 200 characters">> ELSE <<>>
      e3 == IF task.priority # "" /\ task.priority \notin Priorities
            THEN <<"Invalid priority value">> ELSE <<>>
      e4 == IF task.dueDate # Null /\ IsNaNDate(task.dueDate)
            THEN <<"Invalid due date">> ELSE <<>>
      errors == e1 \o e2 \o e3 \o e4
  IN [isValid |-> Len(errors) = 0, errors |-> errors]

validate(task) ==
  LET e1 == IF task.title = <<>> \/ Len(trim(task.title)) = 0
            THEN <<"Title is required">> ELSE <<>>
      e2 == IF task.title # <<>> /\ Len(task.title) > TitleMaxLen
            THEN <<"Title must be less than 200 characters">> ELSE <<>>
      e3 == IF task.priority # "" /\ task.priority \notin Priorities
            THEN <<"Invalid priority value">> ELSE <<>>
      e4 == IF task.dueDate # Null /\ IsNaNDate(task.dueDate)
            THEN <<"Invalid due date">> ELSE <<>>
      errors == e1 \o e2 \o e3 \o e4
  IN [isValid |-> Len(errors) = 0, errors |-> errors]

\* isOverdue() without the test of completed
isOverdueThoughCompleted(task) ==
  IF task.dueDate = Null THEN FALSE
  ELSE ~IsNaNDate(task.dueDate) /\ task.dueDate < now

isOverdue(task) ==
  IF task.dueDate = Null \/ task.completed THEN FALSE
  ELSE ~IsNaNDate(task.dueDate) /\ task.dueDate < now

\* getDate(), getMonth() and getFullYear() agree exactly on the same day
DayOf(t) == t \div UnitsPerDay

isDueToday(task) ==
  IF task.dueDate = Null THEN FALSE
  ELSE ~IsNaNDate(task.dueDate) /\ DayOf(task.dueDate) = DayOf(now)

isDueThisWeek(task) ==
  IF task.dueDate = Null THEN FALSE
  ELSE /\ ~IsNaNDate(task.dueDate)
       /\ task.dueDate - now <= OneWeek
       /\ task.dueDate >= now

\* toggleComplete() that leaves completedAt set when the task is reopened
toggleCompleteKeepStamp(task) ==
  [task EXCEPT !.completed = ~task.completed,
               !.completedAt = IF ~task.completed THEN now ELSE @,
               !.updatedAt = now]

toggleComplete(task) ==
  [task EXCEPT !.completed = ~task.completed,
               !.completedAt = IF ~task.completed THEN now ELSE Null,
               !.updatedAt = now]

\* addTag() that trims the tag and does not lower-case it
addTagNoLower(task, tag) ==
  LET trimmedTag == trim(tag)
  IN IF trimmedTag # <<>> /\ ~arrayIncludes(task.tags, trimmedTag)
     THEN [task EXCEPT !.tags = Append(@, trimmedTag), !.updatedAt = now]
     ELSE task

addTag(task, tag) ==
  LET trimmedTag == toLowerCase(trim(tag))
  IN IF trimmedTag # <<>> /\ ~arrayIncludes(task.tags, trimmedTag)
     THEN [task EXCEPT !.tags = Append(@, trimmedTag), !.updatedAt = now]
     ELSE task

removeTag(task, tag) ==
  [task EXCEPT !.tags = SelectSeq(@, LAMBDA t : t # tag),
               !.updatedAt = now]

-----------------------------------------------------------------------------
(* DB, src/unnamed/part_000.  Every operator takes the storage it reads    *)
(* and returns the storage it leaves.                                      *)

getTasks(st) == IF st.tasks.present THEN JSONparse(st.tasks.text) ELSE <<>>

saveTasks(st, tasks) ==
  IF quota
  THEN [st |-> st, ok |-> FALSE]
  ELSE [st |-> [st EXCEPT !.tasks = Item(JSONstringify(tasks))], ok |-> TRUE]

\* the settings object has no properties in this model: {} is <<>>
getSettings(st) ==
  IF st.settings.present THEN JSONparse(st.settings.text) ELSE <<>>

saveSettings(st, settings) ==
  IF quota
  THEN [st |-> st, ok |-> FALSE]
  ELSE [st |-> [st EXCEPT !.settings = Item(JSONstringify(settings))],
        ok |-> TRUE]

generateId == GenBase + genCount + 1

SavedName(ok) == IF ok THEN "ok" ELSE "failed"

DBaddTask(st, taskData) ==
  LET tasks == getTasks(st)
      generated == ~("id" \in DOMAIN taskData /\ Truthy("id", taskData.id))
      newTask == Spread(taskData,
                   [id        |-> IF generated THEN generateId ELSE taskData.id,
                    createdAt |-> OrDefault(taskData, "createdAt", now),
                    updatedAt |-> now])
      w == saveTasks(st, Append(tasks, newTask))
  IN [st |-> w.st, found |-> TRUE, task |-> newTask,
      saved |-> SavedName(w.ok), generated |-> generated]

\* tasks.findIndex(task => task.id === taskId), 0 for -1
findIndex(tasks, taskId) ==
  IF \E i \in 1..Len(tasks) : tasks[i].id = taskId
  THEN CHOOSE i \in 1..Len(tasks) :
         /\ tasks[i].id = taskId
         /\ \A j \in 1..(i - 1) : tasks[j].id # taskId
  ELSE 0

\* updateTask() that stamps createdAt as well as updatedAt
DBupdateTaskRestamp(st, taskId, updates) ==
  LET tasks == getTasks(st)
      index == findIndex(tasks, taskId)
  IN IF index = 0
     THEN [st |-> st, found |-> FALSE, task |-> <<>>, saved |-> "none"]
     ELSE LET updated == Spread(Spread(tasks[index], updates),
                                [updatedAt |-> now, createdAt |-> now])
              w == saveTasks(st, [tasks EXCEPT ![index] = updated])
          IN [st |-> w.st, found |-> TRUE, task |-> updated,
              saved |-> SavedName(w.ok)]

DBupdateTask(st, taskId, updates) ==
  LET tasks == getTasks(st)
      index == findIndex(tasks, taskId)
  IN IF index = 0
     THEN [st |-> st, found |-> FALSE, task |-> <<>>, saved |-> "none"]
     ELSE LET updated == Spread(Spread(tasks[index], updates),
                                [updatedAt |-> now])
              w == saveTasks(st, [tasks EXCEPT ![index] = updated])
          IN [st |-> w.st, found |-> TRUE, task |-> updated,
              saved |-> SavedName(w.ok)]

\* deleteTask() without the test that something was removed
DBdeleteTaskNoCheck(st, taskId) ==
  LET tasks == getTasks(st)
      filteredTasks == SelectSeq(tasks, LAMBDA t : t.id # taskId)
      w == saveTasks(st, filteredTasks)
  IN [st |-> w.st, ok |-> TRUE, saved |-> SavedName(w.ok)]

DBdeleteTask(st, taskId) ==
  LET tasks == getTasks(st)
      filteredTasks == SelectSeq(tasks, LAMBDA t : t.id # taskId)
  IN IF Len(filteredTasks) = Len(tasks)
     THEN [st |-> st, ok |-> FALSE, saved |-> "none"]
     ELSE LET w == saveTasks(st, filteredTasks)
          IN [st |-> w.st, ok |-> TRUE, saved |-> SavedName(w.ok)]

DBtoggleTaskComplete(st, taskId) ==
  LET tasks == getTasks(st)
      index == findIndex(tasks, taskId)
  IN IF index = 0
     THEN [st |-> st, found |-> FALSE, task |-> <<>>, saved |-> "none"]
     ELSE DBupdateTask(st, taskId,
            [completed   |-> ~tasks[index].completed,
             completedAt |-> IF ~tasks[index].completed THEN now ELSE Null])

-----------------------------------------------------------------------------
(* Returned values *)

RetNull == [kind |-> "null", val |-> <<>>]
RetBool(b) == [kind |-> "bool", val |-> <<b>>]
RetTask(t) == [kind |-> "task", val |-> <<t>>]
RetNum(n) == [kind |-> "number", val |-> <<n>>]

IsFalse(r) == r.kind = "bool" /\ r.val[1] = FALSE
IsTrue(r) == r.kind = "bool" /\ r.val[1] = TRUE
IsNullRet(r) == r.kind = "null"

-----------------------------------------------------------------------------
(* TaskService, src/TaskService.js *)

getAllTasks(st) ==
  LET tasksData == getTasks(st)
  IN [i \in 1..Len(tasksData) |-> fromJSON(tasksData[i])]

createTask(st, taskData) ==
  LET task == Task(taskData)
      validation == validate(task)
  IN IF ~validation.isValid
     THEN [st |-> st, ret |-> RetNull, saved |-> "none", generated |-> FALSE]
     ELSE LET a == DBaddTask(st, toJSON(task))
          IN [st |-> a.st, ret |-> RetTask(fromJSON(a.task)),
              saved |-> a.saved, generated |-> a.generated]

updateTask(st, taskId, updates) ==
  LET u == DBupdateTask(st, taskId, updates)
  IN [st |-> u.st,
      ret |-> IF u.found THEN RetTask(fromJSON(u.task)) ELSE RetNull,
      saved |-> u.saved]

deleteTask(st, taskId) ==
  LET d == DBdeleteTask(st, taskId)
  IN [st |-> d.st, ret |-> RetBool(d.ok), saved |-> d.saved]

toggleTaskComplete(st, taskId) ==
  LET u == DBtoggleTaskComplete(st, taskId)
  IN [st |-> u.st,
      ret |-> IF u.found THEN RetTask(fromJSON(u.task)) ELSE RetNull,
      saved |-> u.saved]

\* taskIds.forEach(id => { if (this.updateTask(id, updates)) count++ })
RECURSIVE bulkUpdateFrom(_, _, _, _, _)
bulkUpdateFrom(st, taskIds, updates, count, lastSaved) ==
  IF taskIds = <<>>
  THEN [st |-> st, ret |-> RetNum(count), saved |-> lastSaved]
  ELSE LET u == updateTask(st, Head(taskIds), updates)
       IN bulkUpdateFrom(u.st, Tail(taskIds), updates,
                         IF u.ret.kind = "task" THEN count + 1 ELSE count,
                         IF u.saved = "none" THEN lastSaved ELSE u.saved)

bulkUpdate(st, taskIds, updates) ==
  bulkUpdateFrom(st, taskIds, updates, 0, "none")

RECURSIVE bulkDeleteFrom(_, _, _, _)
bulkDeleteFrom(st, taskIds, count, lastSaved) ==
  IF taskIds = <<>>
  THEN [st |-> st, ret |-> RetNum(count), saved |-> lastSaved]
  ELSE LET d == deleteTask(st, Head(taskIds))
       IN bulkDeleteFrom(d.st, Tail(taskIds),
                         IF IsTrue(d.ret) THEN count + 1 ELSE count,
                         IF d.saved = "none" THEN lastSaved ELSE d.saved)

\* bulkDelete() that stops at the first id it cannot delete
RECURSIVE bulkDeleteUntilMissing(_, _, _, _)
bulkDeleteUntilMissing(st, taskIds, count, lastSaved) ==
  IF taskIds = <<>>
  THEN [st |-> st, ret |-> RetNum(count), saved |-> lastSaved]
  ELSE LET d == deleteTask(st, Head(taskIds))
       IN IF IsTrue(d.ret)
          THEN bulkDeleteUntilMissing(d.st, Tail(taskIds), count + 1, d.saved)
          ELSE [st |-> st, ret |-> RetNum(count), saved |-> lastSaved]

bulkDeleteStopAtMissing(st, taskIds) ==
  bulkDeleteUntilMissing(st, taskIds, 0, "none")

bulkDelete(st, taskIds) == bulkDeleteFrom(st, taskIds, 0, "none")

\* filters.x is supplied when the code's test for it passes
HasCompleted(filters) == "completed" \in DOMAIN filters
HasPriority(filters) == "priority" \in DOMAIN filters /\ filters.priority # ""
HasDueFilter(filters) ==
  "dueFilter" \in DOMAIN filters /\ filters.dueFilter # ""
HasTags(filters) == "tags" \in DOMAIN filters /\ Len(filters.tags) > 0
HasSearch(filters) == "search" \in DOMAIN filters /\ filters.search # <<>>

\* the dueFilter switch with 'upcoming' as the whole coming week
DueMatchesWholeWeek(task, dueFilter) ==
  CASE dueFilter = "today" -> isDueToday(task)
    [] dueFilter = "upcoming" -> isDueThisWeek(task)
    [] dueFilter = "overdue" -> isOverdue(task)
    [] OTHER -> TRUE

DueMatches(task, dueFilter) ==
  CASE dueFilter = "today" -> isDueToday(task)
    [] dueFilter = "upcoming" -> isDueThisWeek(task) /\ ~isDueToday(task)
    [] dueFilter = "overdue" -> isOverdue(task)
    [] OTHER -> TRUE

\* getFilteredTasks() with filters.tags.every in place of filters.tags.some
getFilteredTasksEveryTag(st, filters) ==
  LET t0 == getAllTasks(st)
      t1 == SelectSeq(t0, LAMBDA t :
              HasCompleted(filters) => t.completed = filters.completed)
      t2 == SelectSeq(t1, LAMBDA t :
              HasPriority(filters) => t.priority = filters.priority)
      t3 == SelectSeq(t2, LAMBDA t :
              HasDueFilter(filters) => DueMatches(t, filters.dueFilter))
      t4 == SelectSeq(t3, LAMBDA t :
              HasTags(filters) =>
                \A i \in 1..Len(filters.tags) :
                  arrayIncludes(t.tags, filters.tags[i]))
      t5 == SelectSeq(t4, LAMBDA t :
              HasSearch(filters) =>
                LET searchLower == toLowerCase(filters.search)
                IN \/ includes(toLowerCase(t.title), searchLower)
                   \/ includes(toLowerCase(t.description), searchLower))
  IN t5

\* each filter is applied when the code's test for it passes
getFilteredTasks(st, filters) ==
  LET t0 == getAllTasks(st)
      t1 == SelectSeq(t0, LAMBDA t :
              HasCompleted(filters) => t.completed = filters.completed)
      t2 == SelectSeq(t1, LAMBDA t :
              HasPriority(filters) => t.priority = filters.priority)
      t3 == SelectSeq(t2, LAMBDA t :
              HasDueFilter(filters) => DueMatches(t, filters.dueFilter))
      t4 == SelectSeq(t3, LAMBDA t :
              HasTags(filters) =>
                \E i \in 1..Len(filters.tags) :
                  arrayIncludes(t.tags, filters.tags[i]))
      t5 == SelectSeq(t4, LAMBDA t :
              HasSearch(filters) =>
                LET searchLower == toLowerCase(filters.search)
                IN \/ includes(toLowerCase(t.title), searchLower)
                   \/ includes(toLowerCase(t.description), searchLower))
  IN t5

getTodayTasks(st) ==
  getFilteredTasks(st, [dueFilter |-> "today", completed |-> FALSE])

getUpcomingTasks(st) ==
  getFilteredTasks(st, [dueFilter |-> "upcoming", completed |-> FALSE])

getOverdueTasks(st) ==
  getFilteredTasks(st, [dueFilter |-> "overdue", completed |-> FALSE])

getCompletedTasks(st) == getFilteredTasks(st, [completed |-> TRUE])

getTasksByPriority(st, priority) ==
  getFilteredTasks(st, [priority |-> priority, completed |-> FALSE])

searchTasks(st, query) == getFilteredTasks(st, [search |-> query])

\* Math.floor in place of Math.round
FloorPercent(x, y) == (100 * x) \div y

\* Math.round(x / y * 100) for x >= 0, y > 0: halves round up
RoundPercent(x, y) == (200 * x + y) \div (2 * y)

getStatistics(st) ==
  LET tasks == getAllTasks(st)
      completed == SelectSeq(tasks, LAMBDA t : t.completed)
      active == SelectSeq(tasks, LAMBDA t : ~t.completed)
      overdue == SelectSeq(tasks, LAMBDA t : isOverdue(t))
      count(p) == Len(SelectSeq(tasks, LAMBDA t : t.priority = p))
  IN [total |-> Len(tasks),
      completed |-> Len(completed),
      active |-> Len(active),
      overdue |-> Len(overdue),
      completionRate |-> IF Len(tasks) > 0
                         THEN RoundPercent(Len(completed), Len(tasks))
                         ELSE 0,
      byPriority |-> [low |-> count("low"), medium |-> count("medium"),
                      high |-> count("high"), urgent |-> count("urgent")]]

\* the value sortTasks compares for a task
SortValue(task, sortBy) ==
  LET raw == task[sortBy]
  IN IF sortBy \in {"createdAt", "updatedAt", "completedAt", "dueDate"}
     THEN (IF raw # Null THEN raw ELSE 0)
     ELSE toLowerCase(raw)

\* "a" < "b" on lower-cased strings, by code unit
CharCode(c) ==
  CASE c = " " -> 32 [] c = "a" -> 97 [] c = "b" -> 98 [] c = "c" -> 99
    [] c = "w" -> 119 [] c = "x" -> 120

RECURSIVE StringLess(_, _)
StringLess(x, y) ==
  IF y = <<>> THEN FALSE
  ELSE IF x = <<>> THEN TRUE
  ELSE IF CharCode(Head(x)) # CharCode(Head(y))
       THEN CharCode(Head(x)) < CharCode(Head(y))
       ELSE StringLess(Tail(x), Tail(y))

ValueLess(sortBy, x, y) ==
  IF sortBy \in {"createdAt", "updatedAt", "completedAt", "dueDate"}
  THEN x < y
  ELSE StringLess(x, y)

\* the comparator handed to Array.prototype.sort
Compare(a, b, sortBy, order) ==
  LET aVal == SortValue(a, sortBy)
      bVal == SortValue(b, sortBy)
  IN IF ValueLess(sortBy, aVal, bVal) THEN (IF order = "asc" THEN -1 ELSE 1)
     ELSE IF ValueLess(sortBy, bVal, aVal)
          THEN (IF order = "asc" THEN 1 ELSE -1)
          ELSE 0

\* Array.prototype.sort is stable (ECMAScript 2019): an element goes after
\* every element already placed that does not compare greater than it
RECURSIVE InsertSorted(_, _, _, _)
InsertSorted(sorted, x, sortBy, order) ==
  IF sorted = <<>> THEN <<x>>
  ELSE IF Compare(sorted[Len(sorted)], x, sortBy, order) <= 0
       THEN Append(sorted, x)
       ELSE Append(InsertSorted(SubSeq(sorted, 1, Len(sorted) - 1), x,
                                sortBy, order),
                   sorted[Len(sorted)])

RECURSIVE StableSort(_, _, _)
StableSort(arr, sortBy, order) ==
  IF arr = <<>> THEN <<>>
  ELSE InsertSorted(StableSort(SubSeq(arr, 1, Len(arr) - 1), sortBy, order),
                    arr[Len(arr)], sortBy, order)

RECURSIVE Reverse(_)
Reverse(q) == IF q = <<>> THEN <<>> ELSE Append(Reverse(Tail(q)), Head(q))

\* sortTasks() that gets desc by reversing the ascending result
sortTasksReverseDesc(tasks, sortBy, order) ==
  [tasks |-> tasks,
   sorted |-> IF order = "desc"
              THEN Reverse(StableSort(tasks, sortBy, "asc"))
              ELSE StableSort(tasks, sortBy, "asc")]

\* [...tasks].sort(...): the copy is sorted, tasks is left as it was
sortTasks(tasks, sortBy, order) ==
  [tasks |-> tasks, sorted |-> StableSort(tasks, sortBy, order)]

-----------------------------------------------------------------------------
(* Export and import, src/unnamed/part_000 *)

\* a string is either JSON text or something JSON.parse rejects
NoEnvelope == [valid |-> FALSE, text |-> JSONstringify(<<>>)]

BadJSON == [valid |-> FALSE, text |-> JSONstringify(<<>>)]

\* '{"settings":{}}', an envelope with no tasks key
SettingsOnly == [valid |-> TRUE, text |-> JSONstringify([settings |-> <<>>])]

exportData(st) ==
  LET data == [tasks |-> getTasks(st),
               settings |-> getSettings(st),
               exportedAt |-> now]
  IN [valid |-> TRUE, text |-> JSONstringify(data)]

\* importData() that takes an empty task array for a missing one
importDataSkipEmpty(st, jsonString) ==
  IF ~jsonString.valid
  THEN [st |-> st, ret |-> RetBool(FALSE), saved |-> "none"]
  ELSE LET data == JSONparse(jsonString.text)
           hasTasks == "tasks" \in DOMAIN data /\ Len(data.tasks) > 0
           w == IF hasTasks
                THEN saveTasks(st, data.tasks)
                ELSE [st |-> st, ok |-> TRUE]
           s == IF "settings" \in DOMAIN data
                THEN saveSettings(w.st, data.settings)
                ELSE [st |-> w.st, ok |-> TRUE]
       IN [st |-> s.st, ret |-> RetBool(TRUE),
           saved |-> IF hasTasks THEN SavedName(w.ok) ELSE "none"]

importData(st, jsonString) ==
  IF ~jsonString.valid
  THEN [st |-> st, ret |-> RetBool(FALSE), saved |-> "none"]
  ELSE LET data == JSONparse(jsonString.text)
           hasTasks == "tasks" \in DOMAIN data
           w == IF hasTasks
                THEN saveTasks(st, data.tasks)
                ELSE [st |-> st, ok |-> TRUE]
           s == IF "settings" \in DOMAIN data
                THEN saveSettings(w.st, data.settings)
                ELSE [st |-> w.st, ok |-> TRUE]
       IN [st |-> s.st, ret |-> RetBool(TRUE),
           saved |-> IF hasTasks THEN SavedName(w.ok) ELSE "none"]

-----------------------------------------------------------------------------
(* ModalManager, src/ModalManager.js *)

ClosedModal == [currentTaskId |-> Null, isOpen |-> FALSE]

\* the value of an empty date input
NoDate == Null

\* s.split(',')
RECURSIVE split(_)
split(s) ==
  IF \E i \in 1..Len(s) : s[i] = ","
  THEN LET i == CHOOSE k \in 1..Len(s) :
                  s[k] = "," /\ \A j \in 1..(k - 1) : s[j] # ","
       IN <<SubSeq(s, 1, i - 1)>> \o split(SubSeq(s, i + 1, Len(s)))
  ELSE <<s>>

\* form holds the values of the five inputs of the task form
getFormData(form) ==
  LET title == trim(form.taskTitle)
      description == trim(form.taskDescription)
      dueDate == IF form.taskDueDate # NoDate THEN form.taskDueDate ELSE Null
      priority == form.taskPriority
      tagsInput == trim(form.taskTags)
      parts == split(tagsInput)
      tags == IF tagsInput # <<>>
              THEN SelectSeq([i \in 1..Len(parts) |->
                                toLowerCase(trim(parts[i]))],
                             LAMBDA t : t # <<>>)
              ELSE <<>>
  IN [title |-> title, description |-> description, dueDate |-> dueDate,
      priority |-> priority, tags |-> tags]

-----------------------------------------------------------------------------
(* TaskListView, src/Task.js, and Dashboard, src/unnamed/part_000.  A       *)
(* filter name is the sequence of the pieces it is concatenated from:      *)
(* 'today' is <<"today">>, 'priority-' + 'high' is <<"priority-", "high">>  *)

FilterName(name) == <<name>>

\* 'priority-' + priority
PriorityFilter(priority) == <<"priority-", priority>>

\* filter.startsWith('priority-')
startsWithPriority(filter) == filter[1] = "priority-"

\* filter.replace('priority-', '')
replacePriority(filter) == filter[2]

getTasksForFilter(st, filter) ==
  CASE filter = FilterName("today") -> getTodayTasks(st)
    [] filter = FilterName("upcoming") -> getUpcomingTasks(st)
    [] filter = FilterName("completed") -> getCompletedTasks(st)
    [] OTHER -> SelectSeq(getAllTasks(st), LAMBDA t : ~t.completed)

shouldShowTask(task, filter) ==
  CASE filter = FilterName("today") -> isDueToday(task) /\ ~task.completed
    [] filter = FilterName("upcoming") ->
         isDueThisWeek(task) /\ ~isDueToday(task) /\ ~task.completed
    [] filter = FilterName("completed") -> task.completed
    [] OTHER -> ~task.completed

\* a variant whose all-tasks badge counts the completed tasks too
updateCountsOfTotal(st) ==
  LET stats == getStatistics(st)
  IN [allTasksCount       |-> stats.total,
      todayTasksCount     |-> Len(getTodayTasks(st)),
      upcomingTasksCount  |-> Len(getUpcomingTasks(st)),
      completedTasksCount |-> stats.completed,
      highPriorityCount   |-> Len(getTasksByPriority(st, "high")),
      mediumPriorityCount |-> Len(getTasksByPriority(st, "medium")),
      lowPriorityCount    |-> Len(getTasksByPriority(st, "low"))]

\* the seven count badges of the sidebar
updateCounts(st) ==
  LET stats == getStatistics(st)
  IN [allTasksCount       |-> stats.active,
      todayTasksCount     |-> Len(getTodayTasks(st)),
      upcomingTasksCount  |-> Len(getUpcomingTasks(st)),
      completedTasksCount |-> stats.completed,
      highPriorityCount   |-> Len(getTasksByPriority(st, "high")),
      mediumPriorityCount |-> Len(getTasksByPriority(st, "medium")),
      lowPriorityCount    |-> Len(getTasksByPriority(st, "low"))]

\* the container refilled with one row per task, the empty state shown
\* when there is none, the badges recomputed by updateCounts()
Rendered(view, tasks, counts) ==
  [view EXCEPT !.container = tasks,
               !.emptyState = Len(tasks) = 0,
               !.counts = counts]

\* TaskListView.render(filter, search)
TaskListViewRender(st, view, filter, search) ==
  LET tasks == IF search # <<>>
               THEN SelectSeq(searchTasks(st, search),
                              LAMBDA t : shouldShowTask(t, filter))
               ELSE getTasksForFilter(st, filter)
      sorted == sortTasks(tasks, "createdAt", "desc").sorted
  IN Rendered([view EXCEPT !.currentFilter = filter,
                           !.currentSearch = search],
              sorted, updateCounts(st))

\* Dashboard.renderTasks(tasks)
renderTasks(st, view, tasks) == Rendered(view, tasks, updateCounts(st))

\* Dashboard.render() with dash the Dashboard and view the TaskListView
DashboardRender(st, dash, view) ==
  LET filter == dash.currentFilter
  IN IF startsWithPriority(filter)
     THEN LET priority == replacePriority(filter)
              tasks == getTasksByPriority(st, priority)
              searchedTasks == searchTasks(st, dash.currentSearch)
              filtered ==
                SelectSeq(tasks, LAMBDA t :
                  \E k \in 1..Len(searchedTasks) :
                    searchedTasks[k].id = t.id)
          IN renderTasks(st, view,
                         IF dash.currentSearch # <<>>
                         THEN filtered ELSE tasks)
     ELSE TaskListViewRender(st, view, filter, dash.currentSearch)

InitialDashboard ==
  [currentFilter |-> FilterName("all"), currentSearch |-> <<>>]

\* TaskListView before its first render
InitialListView ==
  [currentFilter |-> FilterName("all"), currentSearch |-> <<>>,
   container |-> <<>>, emptyState |-> FALSE,
   counts |-> [allTasksCount |-> 0, todayTasksCount |-> 0,
               upcomingTasksCount |-> 0, completedTasksCount |-> 0,
               highPriorityCount |-> 0, mediumPriorityCount |-> 0,
               lowPriorityCount |-> 0]]

-----------------------------------------------------------------------------
(* Inputs *)

TaskInputs ==
  { [title |-> <<"a">>],
    [title |-> <<" ">>],
    [title |-> <<>>, priority |-> "high"],
    [id |-> 1, title |-> <<"A", "b">>, priority |-> "high",
     tags |-> <<Work>>],
    [title |-> <<"b">>, description |-> <<"x", "A">>, priority |-> "low",
     dueDate |-> 3, tags |-> <<Home, Work>>] }

UpdateInputs ==
  { [completed |-> TRUE],
    [id |-> 1] }

GeneratedIds == {GenBase + n : n \in 1..MaxGen}

OpIds == {1} \cup GeneratedIds

RECURSIVE SeqsUpTo(_, _)
SeqsUpTo(S, n) ==
  IF n = 0 THEN {<<>>}
  ELSE LET shorter == SeqsUpTo(S, n - 1)
       IN shorter \cup {Append(q, x) : q \in shorter, x \in S}

BulkIdInputs == SeqsUpTo(OpIds, MaxBulk) \ {<<>>}

-----------------------------------------------------------------------------
(* Actions *)

Idle == [op |-> "none", id |-> Null, ids |-> <<>>, arg |-> <<>>]

Init ==
  /\ storage = EmptyStorage
  /\ now = 1
  /\ genCount = 0
  /\ quota = FALSE
  /\ call = Idle
  /\ ret = RetNull
  /\ saved = "none"
  /\ envelope = NoEnvelope
  /\ sortIn = <<>>
  /\ sortOut = <<>>
  /\ entity = <<>>
  /\ modal = ClosedModal
  /\ dashboard = InitialDashboard
  /\ listView = DashboardRender(storage, InitialDashboard, InitialListView)
  /\ searchInput = [value |-> <<>>]
  /\ debounceTimer = Null
  /\ timers = {}

Tick ==
  /\ now < MaxNow
  /\ now' = now + 1
  /\ call' = Idle
  /\ ret' = RetNull
  /\ saved' = "none"
  /\ UNCHANGED <<searchInput, debounceTimer, timers,
                 storage, genCount, quota, envelope, sortIn, sortOut,
               entity, modal, dashboard, listView>>

CreateTask ==
  \E taskData \in TaskInputs :
    LET r == createTask(storage, taskData)
    IN /\ Len(getTasks(storage)) < MaxTasks
       /\ r.generated => genCount < MaxGen
       /\ storage' = r.st
       /\ ret' = r.ret
       /\ saved' = r.saved
       /\ genCount' = IF r.generated THEN genCount + 1 ELSE genCount
       /\ call' = [op |-> "createTask", id |-> Null, ids |-> <<>>,
                   arg |-> taskData]
       /\ UNCHANGED <<searchInput, debounceTimer, timers,
                      now, quota, envelope, sortIn, sortOut,
               entity, modal, dashboard, listView>>

UpdateTask ==
  \E taskId \in OpIds, updates \in UpdateInputs :
    LET r == updateTask(storage, taskId, updates)
    IN /\ storage' = r.st
       /\ ret' = r.ret
       /\ saved' = r.saved
       /\ call' = [op |-> "updateTask", id |-> taskId, ids |-> <<>>,
                   arg |-> updates]
       /\ UNCHANGED <<searchInput, debounceTimer, timers,
                      now, genCount, quota, envelope, sortIn, sortOut,
               entity, modal, dashboard, listView>>

DeleteTask ==
  \E taskId \in OpIds :
    LET r == deleteTask(storage, taskId)
    IN /\ storage' = r.st
       /\ ret' = r.ret
       /\ saved' = r.saved
       /\ call' = [op |-> "deleteTask", id |-> taskId, ids |-> <<>>,
                   arg |-> <<>>]
       /\ UNCHANGED <<searchInput, debounceTimer, timers,
                      now, genCount, quota, envelope, sortIn, sortOut,
               entity, modal, dashboard, listView>>

ToggleTaskComplete ==
  \E taskId \in OpIds :
    LET r == toggleTaskComplete(storage, taskId)
    IN /\ storage' = r.st
       /\ ret' = r.ret
       /\ saved' = r.saved
       /\ call' = [op |-> "toggleTaskComplete", id |-> taskId, ids |-> <<>>,
                   arg |-> <<>>]
       /\ UNCHANGED <<searchInput, debounceTimer, timers,
                      now, genCount, quota, envelope, sortIn, sortOut,
               entity, modal, dashboard, listView>>

BulkUpdate ==
  \E taskIds \in BulkIdInputs, updates \in UpdateInputs :
    LET r == bulkUpdate(storage, taskIds, updates)
    IN /\ storage' = r.st
       /\ ret' = r.ret
       /\ saved' = r.saved
       /\ call' = [op |-> "bulkUpdate", id |-> Null, ids |-> taskIds,
                   arg |-> updates]
       /\ UNCHANGED <<searchInput, debounceTimer, timers,
                      now, genCount, quota, envelope, sortIn, sortOut,
               entity, modal, dashboard, listView>>

BulkDelete ==
  \E taskIds \in BulkIdInputs :
    LET r == bulkDelete(storage, taskIds)
    IN /\ storage' = r.st
       /\ ret' = r.ret
       /\ saved' = r.saved
       /\ call' = [op |-> "bulkDelete", id |-> Null, ids |-> taskIds,
                   arg |-> <<>>]
       /\ UNCHANGED <<searchInput, debounceTimer, timers,
                      now, genCount, quota, envelope, sortIn, sortOut,
               entity, modal, dashboard, listView>>

ExportData ==
  /\ envelope' = exportData(storage)
  /\ call' = [op |-> "exportData", id |-> Null, ids |-> <<>>, arg |-> <<>>]
  /\ ret' = RetNull
  /\ saved' = "none"
  /\ UNCHANGED <<searchInput, debounceTimer, timers,
                 storage, now, genCount, quota, sortIn, sortOut,
               entity, modal, dashboard, listView>>

\* the string given to importData: the last export, a string that is not
\* JSON, or an envelope without tasks
ImportInput(choice) ==
  CASE choice = "exported" -> envelope
    [] choice = "invalid" -> BadJSON
    [] OTHER -> SettingsOnly

ImportData ==
  \E choice \in {"exported", "invalid", "settingsOnly"} :
    LET jsonString == ImportInput(choice)
        r == importData(storage, jsonString)
    IN /\ choice = "exported" => envelope.valid
       /\ storage' = r.st
       /\ ret' = r.ret
       /\ saved' = r.saved
       /\ call' = [op |-> "importData", id |-> Null, ids |-> <<>>,
                   arg |-> [input |-> choice]]
       /\ UNCHANGED <<searchInput, debounceTimer, timers,
                      now, genCount, quota, envelope, sortIn, sortOut,
               entity, modal, dashboard, listView>>

\* the storage medium starts or stops refusing writes (quota exceeded,
\* storage disabled by the user)
SetQuota ==
  /\ quota' = ~quota
  /\ call' = Idle
  /\ ret' = RetNull
  /\ saved' = "none"
  /\ UNCHANGED <<searchInput, debounceTimer, timers,
                 storage, now, genCount, envelope, sortIn, sortOut,
               entity, modal, dashboard, listView>>

SortKeys == {"createdAt", "dueDate", "title"}

SortTasks ==
  \E sortBy \in SortKeys, order \in {"asc", "desc"} :
    LET r == sortTasks(sortIn, sortBy, order)
    IN /\ sortIn' = r.tasks
       /\ sortOut' = r.sorted
       /\ call' = [op |-> "sortTasks", id |-> Null, ids |-> <<>>,
                   arg |-> [sortBy |-> sortBy, order |-> order]]
       /\ ret' = RetNull
       /\ saved' = "none"
       /\ UNCHANGED <<searchInput, debounceTimer, timers,
                      storage, now, genCount, quota, envelope,
                      entity, modal, dashboard, listView>>

GetStatistics ==
  /\ ret' = [kind |-> "stats", val |-> <<getStatistics(storage)>>]
  /\ call' = [op |-> "getStatistics", id |-> Null, ids |-> <<>>, arg |-> <<>>]
  /\ saved' = "none"
  /\ UNCHANGED <<searchInput, debounceTimer, timers,
                 storage, now, genCount, quota, envelope, sortIn, sortOut,
               entity, modal, dashboard, listView>>

\* createTask with a due date around the current instant
DueDates == 0..3

DueInputs ==
  {[title |-> <<"a">>, dueDate |-> d, priority |-> "high"] : d \in DueDates}

CreateTaskDue ==
  \E taskData \in DueInputs :
    LET r == createTask(storage, taskData)
    IN /\ Len(getTasks(storage)) < MaxTasks
       /\ r.generated => genCount < MaxGen
       /\ storage' = r.st
       /\ ret' = r.ret
       /\ saved' = r.saved
       /\ genCount' = IF r.generated THEN genCount + 1 ELSE genCount
       /\ call' = [op |-> "createTask", id |-> Null, ids |-> <<>>,
                   arg |-> taskData]
       /\ UNCHANGED <<searchInput, debounceTimer, timers,
                      now, quota, envelope, sortIn, sortOut,
                      entity, modal, dashboard, listView>>

\* a Task instance held by a caller
EntityInputs ==
  { [title |-> <<"a">>],
    [title |-> <<"a">>, dueDate |-> 1, tags |-> <<Home>>],
    [title |-> <<"a">>, dueDate |-> 1, completed |-> TRUE,
     completedAt |-> 1] }

TagInputs ==
  { Work,
    <<" ", "W", "o", "r", "k", " ">>,
    Home,
    <<" ">> }

NewTask ==
  \E data \in EntityInputs :
    /\ entity' = <<Task(data)>>
    /\ call' = [op |-> "newTask", id |-> Null, ids |-> <<>>, arg |-> data]
    /\ ret' = RetNull
    /\ saved' = "none"
    /\ UNCHANGED <<searchInput, debounceTimer, timers,
                   storage, now, genCount, quota, envelope, sortIn, sortOut,
                   modal, dashboard, listView>>

ToggleComplete ==
  /\ entity # <<>>
  /\ entity' = <<toggleComplete(entity[1])>>
  /\ call' = [op |-> "toggleComplete", id |-> Null, ids |-> <<>>,
              arg |-> <<>>]
  /\ ret' = RetNull
  /\ saved' = "none"
  /\ UNCHANGED <<searchInput, debounceTimer, timers,
                 storage, now, genCount, quota, envelope, sortIn, sortOut,
                 modal, dashboard, listView>>

AddTag ==
  \E tag \in TagInputs :
    /\ entity # <<>>
    /\ entity' = <<addTag(entity[1], tag)>>
    /\ call' = [op |-> "addTag", id |-> Null, ids |-> <<>>,
                arg |-> [tag |-> tag]]
    /\ ret' = RetNull
    /\ saved' = "none"
    /\ UNCHANGED <<searchInput, debounceTimer, timers,
                   storage, now, genCount, quota, envelope, sortIn, sortOut,
                   modal, dashboard, listView>>

RemoveTag ==
  \E tag \in TagInputs :
    /\ entity # <<>>
    /\ entity' = <<removeTag(entity[1], tag)>>
    /\ call' = [op |-> "removeTag", id |-> Null, ids |-> <<>>,
                arg |-> [tag |-> tag]]
    /\ ret' = RetNull
    /\ saved' = "none"
    /\ UNCHANGED <<searchInput, debounceTimer, timers,
                   storage, now, genCount, quota, envelope, sortIn, sortOut,
                   modal, dashboard, listView>>

\* the user interface: every handler ends with the page re-rendered
UICall(op) == [op |-> op, id |-> Null, ids |-> <<>>, arg |-> <<>>]

FormInputs ==
  { [taskTitle |-> <<"a">>, taskDescription |-> <<>>, taskDueDate |-> NoDate,
     taskPriority |-> "medium", taskTags |-> <<>>],
    [taskTitle |-> <<" ">>, taskDescription |-> <<>>, taskDueDate |-> NoDate,
     taskPriority |-> "high", taskTags |-> <<>>],
    [taskTitle |-> <<" ", "b">>, taskDescription |-> <<"A">>,
     taskDueDate |-> 2, taskPriority |-> "high",
     taskTags |-> <<"a", ",", " ", "A", ",">>] }

OpenCreateModal ==
  /\ modal' = [currentTaskId |-> Null, isOpen |-> TRUE]
  /\ call' = UICall("openCreateModal")
  /\ ret' = RetNull
  /\ saved' = "none"
  /\ UNCHANGED <<searchInput, debounceTimer, timers,
                 storage, now, genCount, quota, envelope, sortIn, sortOut,
                 entity, dashboard, listView>>

\* the edit button of a row
OpenEditModal ==
  \E i \in 1..Len(listView.container) :
    /\ modal' = [currentTaskId |-> listView.container[i].id, isOpen |-> TRUE]
    /\ call' = UICall("openEditModal")
    /\ ret' = RetNull
    /\ saved' = "none"
    /\ UNCHANGED <<searchInput, debounceTimer, timers,
                   storage, now, genCount, quota, envelope, sortIn, sortOut,
                   entity, dashboard, listView>>

CloseModal ==
  /\ modal.isOpen
  /\ modal' = ClosedModal
  /\ call' = UICall("close")
  /\ ret' = RetNull
  /\ saved' = "none"
  /\ UNCHANGED <<searchInput, debounceTimer, timers,
                 storage, now, genCount, quota, envelope, sortIn, sortOut,
                 entity, dashboard, listView>>

\* ModalManager.handleSubmit(): update or create, TaskListView.render(),
\* close()
HandleSubmit ==
  \E form \in FormInputs :
    LET formData == getFormData(form)
        r == IF modal.currentTaskId # Null
             THEN updateTask(storage, modal.currentTaskId, formData)
                    @@ [generated |-> FALSE]
             ELSE createTask(storage, formData)
    IN /\ modal.isOpen
       /\ modal.currentTaskId = Null => Len(getTasks(storage)) < MaxTasks
       /\ r.generated => genCount < MaxGen
       /\ storage' = r.st
       /\ genCount' = IF r.generated THEN genCount + 1 ELSE genCount
       /\ listView' = TaskListViewRender(storage', listView,
                                         listView.currentFilter,
                                         listView.currentSearch)
       /\ modal' = ClosedModal
       /\ call' = UICall(IF modal.currentTaskId # Null
                         THEN "submitEdit" ELSE "submitCreate")
       /\ ret' = RetNull
       /\ saved' = "none"
       /\ UNCHANGED <<searchInput, debounceTimer, timers,
                      now, quota, envelope, sortIn, sortOut, entity,
                      dashboard>>

FilterSelectors ==
  {FilterName(n) : n \in {"all", "today", "upcoming", "completed"}}
    \cup {PriorityFilter(p) : p \in {"high", "low"}}

SearchInputs == {<<>>, <<"a", " ">>}

\* a click in the sidebar: Dashboard.setFilter(filter)
SetFilter ==
  \E filter \in FilterSelectors :
    /\ dashboard' = [dashboard EXCEPT !.currentFilter = filter]
    /\ listView' = DashboardRender(storage, dashboard', listView)
    /\ call' = UICall("setFilter")
    /\ ret' = RetNull
    /\ saved' = "none"
    /\ UNCHANGED <<searchInput, debounceTimer, timers,
                   storage, now, genCount, quota, envelope, sortIn, sortOut,
                   entity, modal>>

\* a value typed in the search box and, the box left idle, the debounce
\* timer firing on it
SearchInput ==
  \E value \in SearchInputs :
    /\ searchInput' = [value |-> value]
    /\ dashboard' = [dashboard EXCEPT !.currentSearch = trim(value)]
    /\ listView' = DashboardRender(storage, dashboard', listView)
    /\ call' = UICall("search")
    /\ ret' = RetNull
    /\ saved' = "none"
    /\ UNCHANGED <<debounceTimer, timers,
                   storage, now, genCount, quota, envelope, sortIn, sortOut,
                   entity, modal>>

\* the checkbox of a row: toggleTaskComplete(task.id), this.render()
RowToggle ==
  \E i \in 1..Len(listView.container) :
    /\ storage' = toggleTaskComplete(storage, listView.container[i].id).st
    /\ listView' = TaskListViewRender(storage', listView,
                                      listView.currentFilter,
                                      listView.currentSearch)
    /\ call' = UICall("rowToggle")
    /\ ret' = RetNull
    /\ saved' = "none"
    /\ UNCHANGED <<searchInput, debounceTimer, timers,
                   now, genCount, quota, envelope, sortIn, sortOut,
                   entity, modal, dashboard>>

\* the delete button of a row, confirmed: deleteTask(task.id), this.render()
RowDelete ==
  \E i \in 1..Len(listView.container) :
    /\ storage' = deleteTask(storage, listView.container[i].id).st
    /\ listView' = TaskListViewRender(storage', listView,
                                      listView.currentFilter,
                                      listView.currentSearch)
    /\ call' = UICall("rowDelete")
    /\ ret' = RetNull
    /\ saved' = "none"
    /\ UNCHANGED <<searchInput, debounceTimer, timers,
                   now, genCount, quota, envelope, sortIn, sortOut,
                   entity, modal, dashboard>>

\* the browser's timers: a pending timeout is its handle and the time left
\* clearTimeout() that cancels nothing
clearTimeoutNothing(pending, handle) == pending

clearTimeout(pending, handle) == {t \in pending : t.id # handle}

\* a handle no pending timeout has and the last one handed out did not have
NewHandle(pending, last) ==
  LET used == {t.id : t \in pending} \cup {last}
  IN CHOOSE n \in 1..(Cardinality(used) + 1) :
       n \notin used /\ \A m \in 1..(n - 1) : m \in used

setTimeout(pending, handle, delay) ==
  pending \cup {[id |-> handle, left |-> delay]}

\* what the user types into the search box, one input event each
KeyInputs == {<<"a">>, <<"a", " ">>, <<"a", " ", "b">>, <<>>}

\* an input event of the search box: the pending timeout is cleared and a
\* new one is set; call.arg tells how many timeouts were pending
SearchKey ==
  \E value \in KeyInputs :
    /\ searchInput' = [value |-> value]
    /\ debounceTimer' = NewHandle(clearTimeout(timers, debounceTimer),
                                  debounceTimer)
    /\ timers' = setTimeout(clearTimeout(timers, debounceTimer),
                            debounceTimer', DebounceDelay)
    /\ call' = [UICall("searchKey") EXCEPT
                  !.arg = [value |-> value, pending |-> Cardinality(timers)]]
    /\ ret' = RetNull
    /\ saved' = "none"
    /\ UNCHANGED <<storage, now, genCount, quota, envelope, sortIn, sortOut,
                   entity, modal, dashboard, listView>>

\* time passing with no event: a timeout that is due fires before more
\* time passes
TimePasses ==
  /\ timers # {}
  /\ \A t \in timers : t.left > 0
  /\ timers' = {[t EXCEPT !.left = IF @ > TimeStep THEN @ - TimeStep ELSE 0] :
                  t \in timers}
  /\ call' = Idle
  /\ ret' = RetNull
  /\ saved' = "none"
  /\ UNCHANGED <<storage, now, genCount, quota, envelope, sortIn, sortOut,
                 entity, modal, dashboard, listView, searchInput,
                 debounceTimer>>

\* the callback of a timeout that is due: the value of the box is read
\* now, trimmed, and the dashboard is rendered
SearchTimerFires ==
  \E t \in timers :
    /\ t.left = 0
    /\ timers' = timers \ {t}
    /\ dashboard' = [dashboard EXCEPT
                       !.currentSearch = trim(searchInput.value)]
    /\ listView' = DashboardRender(storage, dashboard', listView)
    /\ call' = UICall("search")
    /\ ret' = RetNull
    /\ saved' = "none"
    /\ UNCHANGED <<storage, now, genCount, quota, envelope, sortIn, sortOut,
                   entity, modal, searchInput, debounceTimer>>

\* a delete handler that does not look at the answer of confirm()
RowDeleteUnconfirmed ==
  \E i \in 1..Len(listView.container) :
    /\ storage' = deleteTask(storage, listView.container[i].id).st
    /\ listView' = TaskListViewRender(storage', listView,
                                      listView.currentFilter,
                                      listView.currentSearch)
    /\ call' = UICall("rowDeleteDeclined")
    /\ ret' = RetNull
    /\ saved' = "none"
    /\ UNCHANGED <<searchInput, debounceTimer, timers,
                   now, genCount, quota, envelope, sortIn, sortOut,
                   entity, modal, dashboard>>

\* the delete button of a row with confirm() answered no: nothing is done
RowDeleteDeclined ==
  \E i \in 1..Len(listView.container) :
    /\ call' = UICall("rowDeleteDeclined")
    /\ ret' = RetNull
    /\ saved' = "none"
    /\ UNCHANGED <<searchInput, debounceTimer, timers,
                   storage, now, genCount, quota, envelope, sortIn, sortOut,
                   entity, modal, dashboard, listView>>

-----------------------------------------------------------------------------
(* Specifications *)

\* the task life cycle on a working storage medium
Next ==
  \/ Tick
  \/ CreateTask
  \/ UpdateTask
  \/ DeleteTask
  \/ ToggleTaskComplete

Spec == Init /\ [][Next]_vars

\* the same operations on a storage medium that may refuse writes
NextQuota ==
  \/ SetQuota
  \/ CreateTask
  \/ UpdateTask
  \/ DeleteTask
  \/ ToggleTaskComplete

SpecQuota == Init /\ [][NextQuota]_vars

\* bulk operations
NextBulk ==
  \/ CreateTask
  \/ UpdateTask
  \/ BulkUpdate
  \/ BulkDelete

SpecBulk == Init /\ [][NextBulk]_vars

\* backup and restore
NextBackup ==
  \/ CreateTask
  \/ DeleteTask
  \/ ToggleTaskComplete
  \/ ExportData
  \/ ImportData

SpecBackup == Init /\ [][NextBackup]_vars

\* sortTasks on arrays of tasks
SortTask(id, title, createdAt, dueDate) ==
  Task([id |-> id, title |-> title, createdAt |-> createdAt,
        updatedAt |-> createdAt, dueDate |-> dueDate])

SortPool ==
  { SortTask(1, <<"b">>, 1, Null),
    SortTask(2, <<"B">>, 1, Null),
    SortTask(3, <<"a">>, 2, 3),
    SortTask(4, <<"A", "b">>, 3, 1) }

InitSort ==
  /\ storage = EmptyStorage
  /\ now = 1
  /\ genCount = 0
  /\ quota = FALSE
  /\ call = Idle
  /\ ret = RetNull
  /\ saved = "none"
  /\ envelope = NoEnvelope
  /\ sortIn \in SeqsUpTo(SortPool, MaxSortLen)
  /\ sortOut = <<>>
  /\ entity = <<>>
  /\ modal = ClosedModal
  /\ dashboard = InitialDashboard
  /\ listView = DashboardRender(storage, InitialDashboard, InitialListView)
  /\ searchInput = [value |-> <<>>]
  /\ debounceTimer = Null
  /\ timers = {}

SpecSort == InitSort /\ [][SortTasks]_vars

\* getStatistics on stored collections
StatTask(id, completed, completedAt) ==
  toJSON(Task([id |-> id, title |-> <<"a">>, completed |-> completed,
               completedAt |-> completedAt, createdAt |-> 1,
               updatedAt |-> 1]))

StatPool == {StatTask(1, FALSE, Null), StatTask(2, TRUE, 1)}

InitStats ==
  /\ \E tasks \in SeqsUpTo(StatPool, MaxStatTasks) :
       storage = [EmptyStorage EXCEPT !.tasks = Item(JSONstringify(tasks))]
  /\ now = 1
  /\ genCount = 0
  /\ quota = FALSE
  /\ call = Idle
  /\ ret = RetNull
  /\ saved = "none"
  /\ envelope = NoEnvelope
  /\ sortIn = <<>>
  /\ sortOut = <<>>
  /\ entity = <<>>
  /\ modal = ClosedModal
  /\ dashboard = InitialDashboard
  /\ listView = DashboardRender(storage, InitialDashboard, InitialListView)
  /\ searchInput = [value |-> <<>>]
  /\ debounceTimer = Null
  /\ timers = {}

SpecStats == InitStats /\ [][GetStatistics]_vars

\* getStatistics on collections of tasks that differ in priority, due
\* date and completion; "x" is a priority outside the four values
MixedTask(id, priority, dueDate, completed) ==
  toJSON(Task([id |-> id, title |-> <<"a">>, priority |-> priority,
               dueDate |-> dueDate, completed |-> completed,
               completedAt |-> IF completed THEN 1 ELSE Null,
               createdAt |-> 1, updatedAt |-> 1]))

MixedPool ==
  { MixedTask(1, "low", 0, FALSE),
    MixedTask(2, "medium", Null, FALSE),
    MixedTask(3, "high", 0, TRUE),
    MixedTask(4, "urgent", 3, FALSE),
    MixedTask(5, "x", Null, FALSE) }

InitMixed ==
  /\ \E tasks \in SeqsUpTo(MixedPool, MaxMixedTasks) :
       storage = [EmptyStorage EXCEPT !.tasks = Item(JSONstringify(tasks))]
  /\ now = 1
  /\ genCount = 0
  /\ quota = FALSE
  /\ call = Idle
  /\ ret = RetNull
  /\ saved = "none"
  /\ envelope = NoEnvelope
  /\ sortIn = <<>>
  /\ sortOut = <<>>
  /\ entity = <<>>
  /\ modal = ClosedModal
  /\ dashboard = InitialDashboard
  /\ listView = DashboardRender(storage, InitialDashboard, InitialListView)
  /\ searchInput = [value |-> <<>>]
  /\ debounceTimer = Null
  /\ timers = {}

SpecMixed == InitMixed /\ [][GetStatistics]_vars

\* tasks due around the current instant
NextDue ==
  \/ Tick
  \/ CreateTaskDue
  \/ ToggleTaskComplete
  \/ DeleteTask

SpecDue == Init /\ [][NextDue]_vars

\* the methods of a Task instance
NextEntity ==
  \/ Tick
  \/ NewTask
  \/ ToggleComplete
  \/ AddTag
  \/ RemoveTag

SpecEntity == Init /\ [][NextEntity]_vars

\* creating and editing tasks in the modal
NextModal ==
  \/ Tick
  \/ OpenCreateModal
  \/ OpenEditModal
  \/ CloseModal
  \/ HandleSubmit

SpecModal == Init /\ [][NextModal]_vars

\* the task list: sidebar, search box, rows
NextView ==
  \/ Tick
  \/ OpenCreateModal
  \/ HandleSubmit
  \/ SetFilter
  \/ SearchInput
  \/ RowToggle
  \/ RowDelete

SpecView == Init /\ [][NextView]_vars

\* the buttons of a row: checkbox, edit, delete
NextRow ==
  \/ OpenCreateModal
  \/ OpenEditModal
  \/ HandleSubmit
  \/ SetFilter
  \/ RowToggle
  \/ RowDelete
  \/ RowDeleteDeclined

SpecRow == Init /\ [][NextRow]_vars

\* typing in the search box
NextSearch ==
  \/ OpenCreateModal
  \/ HandleSubmit
  \/ SearchKey
  \/ TimePasses
  \/ SearchTimerFires

SpecSearch == Init /\ [][NextSearch]_vars

-----------------------------------------------------------------------------
(* Properties *)

StoredTasks == getTasks(storage)

HasId(tasks, taskId) == \E i \in 1..Len(tasks) : tasks[i].id = taskId

ArgTitle(arg) == IF "title" \in DOMAIN arg THEN arg.title ELSE <<>>

IsFailure(r) == IsNullRet(r) \/ IsFalse(r)

\* C1: every stored task has completed = true exactly when its completedAt
\* is not null.
C1_CompletedIffCompletedAt ==
  \A i \in 1..Len(StoredTasks) :
    StoredTasks[i].completed <=> StoredTasks[i].completedAt # Null

\* C2: no two stored tasks have the same id.
C2_UniqueIds ==
  \A i, j \in 1..Len(StoredTasks) :
    i # j => StoredTasks[i].id # StoredTasks[j].id

\* C3: createTask with a title that is empty after trimming is rejected:
\* validate() is not valid and lists "Title is required", createTask returns
\* null and the stored collection is what it was before the call.
C3_EmptyTitleRejected ==
  [][(call'.op = "createTask" /\ trim(ArgTitle(call'.arg)) = <<>>) =>
       LET validation == validate(Task(call'.arg))
       IN /\ ~validation.isValid
          /\ arrayIncludes(validation.errors, "Title is required")
          /\ IsNullRet(ret')
          /\ storage' = storage]_vars

C3_Witness ==
  /\ call.op = "createTask"
  /\ ArgTitle(call.arg) = <<" ">>
  /\ IsNullRet(ret)
  /\ Len(StoredTasks) > 0

\* C4: deleteTask, updateTask and toggleTaskComplete with an id no stored
\* task has return false (delete) or null (update, toggle) and leave the
\* stored collection unchanged.
C4_UnknownIdFails ==
  [][(/\ call'.op \in {"deleteTask", "updateTask", "toggleTaskComplete"}
      /\ ~HasId(StoredTasks, call'.id)) =>
       /\ storage' = storage
       /\ call'.op = "deleteTask" => IsFalse(ret')
       /\ call'.op # "deleteTask" => IsNullRet(ret')]_vars

C4_Witness ==
  /\ call.op = "deleteTask"
  /\ IsFalse(ret)
  /\ ~HasId(StoredTasks, call.id)
  /\ Len(StoredTasks) > 0

\* C5: when the storage medium throws on the write, createTask, updateTask,
\* deleteTask and toggleTaskComplete return null or false and the stored
\* collection is unchanged.
C5_WriteFailureReported ==
  [][(/\ call'.op \in {"createTask", "updateTask", "deleteTask",
                       "toggleTaskComplete"}
      /\ saved' = "failed") =>
       /\ IsFailure(ret')
       /\ storage' = storage]_vars

\* C6: exportData returns an envelope holding the stored collection and
\* leaves the collection alone; importData of the exported envelope, in
\* whatever state it is called, returns true and makes the stored
\* collection equal to the exported one (same tasks, same order, same
\* fields).
C6_ExportImportRoundTrip ==
  [][/\ call'.op = "exportData" =>
          /\ envelope'.valid
          /\ JSONparse(envelope'.text).tasks = StoredTasks
          /\ storage'.tasks = storage.tasks
     /\ (call'.op = "importData" /\ call'.arg.input = "exported") =>
          /\ IsTrue(ret')
          /\ getTasks(storage') = JSONparse(envelope.text).tasks]_vars

C6_Witness ==
  /\ call.op = "importData"
  /\ call.arg.input = "exported"
  /\ IsTrue(ret)
  /\ Len(StoredTasks) = 2
  /\ StoredTasks = JSONparse(envelope.text).tasks

\* the ids of the stored tasks, in stored order
IdsOf(tasks) == [i \in 1..Len(tasks) |-> tasks[i].id]

Range(q) == {q[i] : i \in 1..Len(q)}

FirstWithId(idSeq, taskId) ==
  IF \E i \in 1..Len(idSeq) : idSeq[i] = taskId
  THEN CHOOSE i \in 1..Len(idSeq) :
         idSeq[i] = taskId /\ \A j \in 1..(i - 1) : idSeq[j] # taskId
  ELSE 0

\* how many of taskIds name a stored task when they are taken in order,
\* an update carrying an id renaming the task it hits
RECURSIVE ExpectedUpdated(_, _, _)
ExpectedUpdated(idSeq, taskIds, updates) ==
  IF taskIds = <<>> THEN 0
  ELSE LET k == FirstWithId(idSeq, Head(taskIds))
       IN IF k = 0
          THEN ExpectedUpdated(idSeq, Tail(taskIds), updates)
          ELSE 1 + ExpectedUpdated(
                     IF "id" \in DOMAIN updates
                     THEN [idSeq EXCEPT ![k] = updates.id] ELSE idSeq,
                     Tail(taskIds), updates)

\* C7: bulkDelete(ids) removes every stored task whose id is in ids and
\* returns the number of distinct ids of ids that were stored (an unknown id
\* is skipped, a repeated id counts once); bulkUpdate(ids, updates) returns
\* the number of ids that named a stored task when their turn came and,
\* when updates carries no id, updates the first task of every named id and
\* no other.
C7_BulkCounts ==
  [][/\ call'.op = "bulkDelete" =>
          /\ ret'.kind = "number"
          /\ ret'.val[1] =
               Cardinality({k \in 1..Len(call'.ids) :
                  /\ HasId(StoredTasks, call'.ids[k])
                  /\ \A j \in 1..(k - 1) : call'.ids[j] # call'.ids[k]})
          /\ getTasks(storage') =
               SelectSeq(StoredTasks, LAMBDA t : t.id \notin Range(call'.ids))
     /\ call'.op = "bulkUpdate" =>
          /\ ret'.kind = "number"
          /\ ret'.val[1] =
               ExpectedUpdated(IdsOf(StoredTasks), call'.ids, call'.arg)
          /\ Len(getTasks(storage')) = Len(StoredTasks)
          /\ "id" \notin DOMAIN call'.arg =>
               \A i \in 1..Len(StoredTasks) :
                 getTasks(storage')[i] =
                   IF /\ StoredTasks[i].id \in Range(call'.ids)
                      /\ FirstWithId(IdsOf(StoredTasks), StoredTasks[i].id) = i
                   THEN Spread(Spread(StoredTasks[i], call'.arg),
                               [updatedAt |-> now])
                   ELSE StoredTasks[i]]_vars

C7_Witness ==
  /\ call.op = "bulkDelete"
  /\ Len(call.ids) = 2
  /\ call.ids[1] = call.ids[2]
  /\ ret.kind = "number"
  /\ ret.val[1] = 1
  /\ Len(StoredTasks) > 0

KeysEqual(a, b, sortBy) ==
  /\ ~ValueLess(sortBy, SortValue(a, sortBy), SortValue(b, sortBy))
  /\ ~ValueLess(sortBy, SortValue(b, sortBy), SortValue(a, sortBy))

\* a comes no later than b in the given order
InOrder(a, b, sortBy, order) ==
  IF order = "asc"
  THEN ~ValueLess(sortBy, SortValue(b, sortBy), SortValue(a, sortBy))
  ELSE ~ValueLess(sortBy, SortValue(a, sortBy), SortValue(b, sortBy))

\* output is input rearranged by a permutation that keeps equal keys in
\* their input order, and is ordered by the key
IsStableSort(input, output, sortBy, order) ==
  /\ Len(output) = Len(input)
  /\ \E p \in Permutations(1..Len(input)) :
       /\ \A i \in 1..Len(input) : output[i] = input[p[i]]
       /\ \A i, j \in 1..Len(input) :
            i < j =>
              /\ InOrder(output[i], output[j], sortBy, order)
              /\ KeysEqual(output[i], output[j], sortBy) => p[i] < p[j]

\* C8: sortTasks(tasks, key, order) returns a permutation of tasks ordered
\* by the key in which tasks with equal keys keep their input order, for
\* asc and for desc, and leaves tasks itself as it was.
C8_SortStable ==
  [][call'.op = "sortTasks" =>
       /\ sortIn' = sortIn
       /\ IsStableSort(sortIn, sortOut', call'.arg.sortBy, call'.arg.order)
    ]_vars

C8_Witness ==
  /\ call.op = "sortTasks"
  /\ call.arg.sortBy = "dueDate"
  /\ call.arg.order = "desc"
  /\ sortOut # sortIn
  /\ \E i, j \in 1..Len(sortOut) :
       /\ i < j
       /\ sortOut[i].dueDate = Null
       /\ sortOut[j].dueDate = Null
       /\ sortOut[i].id # sortOut[j].id

CompletedCount ==
  Cardinality({i \in 1..Len(StoredTasks) : StoredTasks[i].completed})

FilterInputs ==
  { [search |-> <<>>],
    [completed |-> FALSE],
    [completed |-> TRUE, priority |-> "high"],
    [priority |-> "high", tags |-> <<Work>>],
    [priority |-> "low", tags |-> <<Home>>],
    [priority |-> "high", tags |-> <<>>],
    [tags |-> <<Home, Work>>],
    [dueFilter |-> "today", completed |-> FALSE],
    [dueFilter |-> "upcoming"],
    [dueFilter |-> "overdue", tags |-> <<Work>>],
    [search |-> <<"a">>],
    [search |-> <<"A", "B">>, completed |-> FALSE],
    [search |-> <<"x">>, priority |-> "low"] }

\* task satisfies every predicate filters supplies; a predicate is supplied
\* when its value is not empty (a tag list with no tag supplies nothing)
Satisfies(task, filters) ==
  /\ HasCompleted(filters) => task.completed = filters.completed
  /\ HasPriority(filters) => task.priority = filters.priority
  /\ HasDueFilter(filters) =>
       CASE filters.dueFilter = "today" -> isDueToday(task)
         [] filters.dueFilter = "upcoming" ->
              isDueThisWeek(task) /\ ~isDueToday(task)
         [] filters.dueFilter = "overdue" -> isOverdue(task)
  /\ HasTags(filters) => Range(filters.tags) \cap Range(task.tags) # {}
  /\ HasSearch(filters) =>
       \/ includes(toLowerCase(task.title), toLowerCase(filters.search))
       \/ includes(toLowerCase(task.description),
                   toLowerCase(filters.search))

\* C10: getFilteredTasks(filters) is the stored tasks that satisfy every
\* supplied predicate, in stored order; {priority: 'high', tags: ['work']}
\* gives exactly the tasks of priority high that carry the tag work.
C10_FilteredTasks ==
  /\ \A filters \in FilterInputs :
       getFilteredTasks(storage, filters) =
         SelectSeq(getAllTasks(storage), LAMBDA t : Satisfies(t, filters))
  /\ getFilteredTasks(storage, [priority |-> "high", tags |-> <<Work>>]) =
       SelectSeq(getAllTasks(storage),
                 LAMBDA t : t.priority = "high" /\ arrayIncludes(t.tags, Work))

C10_Witness ==
  LET result == getFilteredTasks(storage,
                                 [priority |-> "high", tags |-> <<Work>>])
  IN /\ Len(result) = 1
     /\ Len(StoredTasks) = 2
     /\ \E i \in 1..2 :
          /\ StoredTasks[i].priority # "high"
          /\ arrayIncludes(StoredTasks[i].tags, Work)

\* C11: a task just created with a valid title and a due date on the current
\* calendar day, not completed, is due today, is not overdue and is among
\* the tasks of getTodayTasks(), wherever in the day its due instant lies.
C11_DueTodayNotOverdue ==
  (/\ call.op = "createTask"
   /\ ret.kind = "task"
   /\ ret.val[1].dueDate # Null
   /\ DayOf(ret.val[1].dueDate) = DayOf(now)
   /\ ~ret.val[1].completed) =>
     /\ isDueToday(ret.val[1])
     /\ ~isOverdue(ret.val[1])
     /\ \E i \in 1..Len(getTodayTasks(storage)) :
          getTodayTasks(storage)[i] = ret.val[1]

\* the tag as addTag stores it
NormalTag(tag) == toLowerCase(trim(tag))

TagCount(tags, tag) == Cardinality({i \in 1..Len(tags) : tags[i] = tag})

\* C12: a completed task is never overdue and an uncompleted task due
\* strictly before the current instant is overdue; toggleComplete() on an
\* overdue task makes it completed, not overdue, with completedAt set, and
\* toggleComplete() on a completed task clears completedAt to null and makes
\* it overdue again when its due date has passed.
C12_CompletedNeverOverdue ==
  /\ [](\A i \in 1..Len(entity) :
          /\ entity[i].completed => ~isOverdue(entity[i])
          /\ (/\ ~entity[i].completed
              /\ entity[i].dueDate # Null
              /\ entity[i].dueDate < now) => isOverdue(entity[i]))
  /\ [][(call'.op = "toggleComplete") =>
       LET before == entity[1]
           after == entity'[1]
           pastDue == after.dueDate # Null /\ after.dueDate < now'
       IN /\ after.completed = ~before.completed
          /\ (~before.completed /\ pastDue) => isOverdue(before)
          /\ after.completed =>
               (~isOverdue(after) /\ after.completedAt # Null)
          /\ ~after.completed =>
               (after.completedAt = Null /\ (pastDue => isOverdue(after)))
       ]_vars

C12_Witness ==
  /\ call.op = "toggleComplete"
  /\ entity # <<>>
  /\ ~entity[1].completed
  /\ entity[1].completedAt = Null
  /\ entity[1].updatedAt > entity[1].createdAt
  /\ isOverdue(entity[1])

\* C13: addTag(x) leaves the normalized tag present when it is not empty,
\* and addTag of a string whose normalized form is already present, or is
\* empty, leaves the tags as they are; so addTag(y) right after addTag(x),
\* with x and y equal after trimming and lower-casing, changes no tag.
C13_AddTagIdempotent ==
  [][(call'.op = "addTag") =>
       LET tag == NormalTag(call'.arg.tag)
           before == entity[1].tags
           after == entity'[1].tags
       IN /\ tag # <<>> => arrayIncludes(after, tag)
          /\ (tag = <<>> \/ arrayIncludes(before, tag)) => after = before
          /\ (call.op = "addTag" /\ NormalTag(call.arg.tag) = tag) =>
               after = before
    ]_vars

C13_Witness ==
  /\ call.op = "addTag"
  /\ call.arg.tag = <<" ", "W", "o", "r", "k", " ">>
  /\ TagCount(entity[1].tags, Work) = 1
  /\ entity[1].updatedAt < now

\* C15: removeTag(y) right after addTag(x), with x and y equal after
\* trimming and lower-casing, leaves the task without that tag.
C15_RemoveTagNormalizes ==
  [][(/\ call.op = "addTag"
      /\ call'.op = "removeTag"
      /\ NormalTag(call.arg.tag) = NormalTag(call'.arg.tag)) =>
       ~arrayIncludes(entity'[1].tags, NormalTag(call'.arg.tag))]_vars

\* C14: the tags of every stored task are trimmed and lower-cased, none is
\* empty and none occurs twice, whatever comma-separated text was submitted
\* in the modal.
C14_TagsDeduplicated ==
  \A i \in 1..Len(StoredTasks) :
    LET tags == StoredTasks[i].tags
    IN /\ \A a \in 1..Len(tags) :
            tags[a] # <<>> /\ tags[a] = NormalTag(tags[a])
       /\ \A a, b \in 1..Len(tags) : a # b => tags[a] # tags[b]

\* C16: an update, a bulk update, a toggle or a modal edit leaves every
\* stored task with the id and the createdAt it had, and a task it changes
\* has its updatedAt set to the current instant.
C16_IdAndCreatedAtFixed ==
  [][(call'.op \in {"updateTask", "bulkUpdate", "toggleTaskComplete",
                    "submitEdit", "rowToggle"}) =>
       LET before == StoredTasks
           after == getTasks(storage')
       IN /\ Len(after) = Len(before)
          /\ \A i \in 1..Len(before) :
               /\ after[i].id = before[i].id
               /\ after[i].createdAt = before[i].createdAt
               /\ after[i] # before[i] => after[i].updatedAt = now'
    ]_vars

\* C17: every stored task passes validate().
C17_StoredTasksValid ==
  \A i \in 1..Len(StoredTasks) : validate(fromJSON(StoredTasks[i])).isValid

\* the operations that end with a render of the task list
RenderOps ==
  {"setFilter", "search", "rowToggle", "rowDelete", "submitCreate",
   "submitEdit"}

\* the task's title or description contains the text, case-insensitively
MatchesSearch(task, search) ==
  \/ includes(toLowerCase(task.title), toLowerCase(search))
  \/ includes(toLowerCase(task.description), toLowerCase(search))

\* what the selected filter shows when the search box is empty
BaseRows ==
  DashboardRender(storage, [dashboard EXCEPT !.currentSearch = <<>>],
                  listView).container

\* C18: after a render with a non-empty search string, the rows shown are
\* exactly the tasks of the selected filter's base set (what the filter
\* shows with no search) whose title or description contains the search
\* string case-insensitively
C18_SearchWithinScope ==
  (call.op \in RenderOps /\ dashboard.currentSearch # <<>>) =>
    Range(listView.container) =
      {t \in Range(BaseRows) : MatchesSearch(t, dashboard.currentSearch)}

\* C19: after a render, whatever the selected filter (a priority bucket
\* included), the rows are in descending order of creation time
C19_RowsNewestFirst ==
  call.op \in RenderOps =>
    \A i, j \in 1..Len(listView.container) :
      i < j => listView.container[i].createdAt
                 >= listView.container[j].createdAt

\* the number of persisted tasks that satisfy P
CountStored(P(_)) ==
  LET all == getAllTasks(storage)
  IN Cardinality({i \in 1..Len(all) : P(all[i])})

IsActive(t) == ~t.completed
IsCompleted(t) == t.completed
IsActiveHigh(t) == ~t.completed /\ t.priority = "high"
IsActiveMedium(t) == ~t.completed /\ t.priority = "medium"
IsActiveLow(t) == ~t.completed /\ t.priority = "low"

\* C20: after a render, whatever the filter and the search string, the
\* badges are those of the whole persisted collection: all = non-completed
\* tasks, completed = completed tasks, today and upcoming = the sizes of
\* the today and upcoming queries, each priority badge = non-completed
\* tasks of that priority
C20_CountsOfFullCollection ==
  call.op \in RenderOps =>
    /\ listView.counts.allTasksCount = CountStored(IsActive)
    /\ listView.counts.completedTasksCount = CountStored(IsCompleted)
    /\ listView.counts.todayTasksCount = Len(getTodayTasks(storage))
    /\ listView.counts.upcomingTasksCount = Len(getUpcomingTasks(storage))
    /\ listView.counts.highPriorityCount = CountStored(IsActiveHigh)
    /\ listView.counts.mediumPriorityCount = CountStored(IsActiveMedium)
    /\ listView.counts.lowPriorityCount = CountStored(IsActiveLow)

\* a priority bucket rendered with a search string: rows are shown, none
\* of them completed, while the completed badge counts a task
C20_Witness ==
  /\ call.op \in RenderOps
  /\ startsWithPriority(dashboard.currentFilter)
  /\ dashboard.currentSearch # <<>>
  /\ Len(listView.container) > 0
  /\ \A i \in 1..Len(listView.container) : ~listView.container[i].completed
  /\ listView.counts.completedTasksCount > 0

\* the ids of the rows shown
RowIds == {listView.container[i].id : i \in 1..Len(listView.container)}

\* tasks is the sequence before with the first task of that id removed
RemovedFrom(before, tasks, taskId) ==
  \E k \in 1..Len(before) :
    /\ before[k].id = taskId
    /\ tasks = SubSeq(before, 1, k - 1) \o SubSeq(before, k + 1, Len(before))

\* tasks is the sequence before with the completed flag of the task of
\* that id flipped and no task added, removed, moved or given another id
FlippedIn(before, tasks, taskId) ==
  /\ Len(tasks) = Len(before)
  /\ \A k \in 1..Len(before) :
       /\ tasks[k].id = before[k].id
       /\ before[k].id = taskId => tasks[k].completed = ~before[k].completed
       /\ before[k].id # taskId => tasks[k] = before[k]

\* the list has been rendered anew from the persisted collection
RenderedAnew(st, view) ==
  /\ Range(view.container) \subseteq Range(getAllTasks(st))
  /\ view.emptyState = (Len(view.container) = 0)
  /\ view.counts = updateCounts(st)

\* C21: a delete intent whose confirmation is declined leaves the persisted
\* collection and the displayed list unchanged, a confirmed one removes the
\* task of the row; an edit intent opens the modal for the task of the row
\* and leaves the persisted collection unchanged; a toggle-complete intent
\* flips the completed flag of the task of the row at once and is followed
\* by a re-render
C21_RowIntents ==
  [][ /\ call'.op = "rowDeleteDeclined" =>
           /\ storage' = storage
           /\ listView' = listView
      /\ call'.op = "rowDelete" =>
           \E taskId \in RowIds :
             /\ RemovedFrom(getTasks(storage), getTasks(storage'), taskId)
             /\ RenderedAnew(storage', listView')
      /\ call'.op = "openEditModal" =>
           /\ storage' = storage
           /\ listView' = listView
           /\ modal'.isOpen
           /\ modal'.currentTaskId \in RowIds
      /\ call'.op = "rowToggle" =>
           \E taskId \in RowIds :
             /\ HasId(getTasks(storage), taskId)
             /\ FlippedIn(getTasks(storage), getTasks(storage'), taskId)
             /\ RenderedAnew(storage', listView')
    ]_vars

\* a delete has just been declined on a list with rows, after a task was
\* completed by its checkbox and while the modal is open for editing a task
C21_Witness ==
  /\ call.op = "rowDeleteDeclined"
  /\ Len(listView.container) > 0
  /\ \E i \in 1..Len(StoredTasks) : StoredTasks[i].completed
  /\ modal.isOpen
  /\ modal.currentTaskId # Null

\* C23: getTodayTasks, getUpcomingTasks, getOverdueTasks and
\* getTasksByPriority never return a completed task, getCompletedTasks
\* returns exactly the completed tasks, and no task is returned by both
\* the today query and the upcoming query
C23_DerivedQueries ==
  /\ \A t \in Range(getTodayTasks(storage)) \cup Range(getUpcomingTasks(storage))
               \cup Range(getOverdueTasks(storage)) : ~t.completed
  /\ \A p \in Priorities :
       \A t \in Range(getTasksByPriority(storage, p)) : ~t.completed
  /\ getCompletedTasks(storage)
       = SelectSeq(getAllTasks(storage), LAMBDA t : t.completed)
  /\ Range(getTodayTasks(storage)) \cap Range(getUpcomingTasks(storage)) = {}

\* the today query returns a task that is also due within the week, and
\* a completed task due later in the week is returned by the completed
\* query alone
C23_Witness ==
  /\ \E t \in Range(getTodayTasks(storage)) : isDueThisWeek(t)
  /\ \E t \in Range(getCompletedTasks(storage)) :
       isDueThisWeek(t) /\ ~isDueToday(t)

\* every persisted task has one of the four priority values
AllPrioritiesKnown ==
  \A i \in 1..Len(StoredTasks) : StoredTasks[i].priority \in Priorities

\* C26: the statistics partition the persisted tasks: completed + active
\* = total, overdue <= active, and the four byPriority counts sum to total
\* whenever every stored task has one of the four priority values
C26_StatisticsPartition ==
  call.op = "getStatistics" =>
    LET stats == ret.val[1]
    IN /\ stats.total = Len(StoredTasks)
       /\ stats.completed + stats.active = stats.total
       /\ stats.overdue <= stats.active
       /\ AllPrioritiesKnown =>
            stats.byPriority.low + stats.byPriority.medium
              + stats.byPriority.high + stats.byPriority.urgent = stats.total

\* statistics of a collection that holds an overdue task, a completed
\* task that is past its due date, and tasks of two known priorities
C26_Witness ==
  /\ call.op = "getStatistics"
  /\ AllPrioritiesKnown
  /\ ret.val[1].overdue > 0
  /\ ret.val[1].completed > 0
  /\ ret.val[1].byPriority.low > 0
  /\ ret.val[1].byPriority.high > 0
  /\ \E i \in 1..Len(StoredTasks) :
       /\ StoredTasks[i].completed
       /\ StoredTasks[i].dueDate # Null
       /\ StoredTasks[i].dueDate < now

\* the operations that change the persisted collection from the page
MutatingOps == {"rowToggle", "rowDelete", "submitCreate", "submitEdit"}

\* the tasks a priority bucket stands for under the dashboard's search
InBucket(task) ==
  /\ ~task.completed
  /\ task.priority = replacePriority(dashboard.currentFilter)
  /\ dashboard.currentSearch # <<>> =>
       MatchesSearch(task, dashboard.currentSearch)

\* C24: after a toggle-complete, a confirmed delete or a modal submit made
\* while a priority bucket is selected, the list shows exactly the
\* non-completed tasks of that priority that match the current search
C24_ListFollowsDashboard ==
  (call.op \in MutatingOps /\ startsWithPriority(dashboard.currentFilter)) =>
    Range(listView.container)
      = {t \in Range(getAllTasks(storage)) : InBucket(t)}

\* the fields of a task the form of the modal carries, and updatedAt
FormFields ==
  {"title", "description", "dueDate", "priority", "tags", "updatedAt"}

\* after is before with nothing but form fields of the task of that id
\* changed: same length, same order, every other task as it was
EditedIn(before, after, taskId) ==
  /\ Len(after) = Len(before)
  /\ \A k \in 1..Len(before) :
       /\ before[k].id # taskId => after[k] = before[k]
       /\ before[k].id = taskId =>
            /\ DOMAIN after[k] = DOMAIN before[k]
            /\ \A f \in DOMAIN before[k] \ FormFields :
                 after[k][f] = before[k][f]

\* after is before, or before with one task of a new id appended
CreatedIn(before, after) ==
  \/ after = before
  \/ /\ Len(after) = Len(before) + 1
     /\ SubSeq(after, 1, Len(before)) = before
     /\ ~HasId(before, after[Len(after)].id)

\* C25: a modal submit in edit mode for a stored task changes only that
\* task's title, description, dueDate, priority, tags and updatedAt, and
\* adds, removes or moves no task; after a submit or a close the modal is
\* closed with currentTaskId null, and a create submit leaves every stored
\* task as it was and at most appends a new one
C25_EditFrame ==
  /\ [](call.op \in {"submitEdit", "submitCreate", "close"} =>
         ~modal.isOpen /\ modal.currentTaskId = Null)
  /\ [][ /\ call'.op = "submitEdit" =>
               /\ modal.currentTaskId # Null
               /\ HasId(getTasks(storage), modal.currentTaskId) =>
                    EditedIn(getTasks(storage), getTasks(storage'),
                             modal.currentTaskId)
         /\ call'.op = "submitCreate" =>
               /\ modal.currentTaskId = Null
               /\ CreatedIn(getTasks(storage), getTasks(storage'))
       ]_vars

\* a create submit has appended a second task after the first one was
\* edited at a later instant than its creation
C25_Witness ==
  /\ call.op = "submitCreate"
  /\ ~modal.isOpen
  /\ Len(StoredTasks) = 2
  /\ StoredTasks[1].updatedAt > StoredTasks[1].createdAt
  /\ StoredTasks[2].createdAt >= StoredTasks[1].updatedAt

\* C22: the search input is debounced.  At most one timeout is pending at
\* any time.  An input event renders nothing and leaves one timeout pending
\* with the whole debounce interval to run, whatever was pending before.
\* The list is re-rendered for a search only by a timeout that has run the
\* whole interval since the last input event; that render uses the trimmed
\* value the box holds, shows only tasks that match it, and leaves no
\* timeout pending.  A pending timeout goes away only by firing or by the
\* next input event.
C22_SearchDebounced ==
  /\ [](Cardinality(timers) <= 1)
  /\ [][  /\ call'.op = "searchKey" =>
               /\ dashboard' = dashboard
               /\ listView' = listView
               /\ searchInput'.value = call'.arg.value
               /\ \E t \in timers' :
                    timers' = {t} /\ t.left = DebounceDelay
          /\ call'.op = "search" =>
               /\ \E t \in timers : t.left = 0
               /\ timers' = {}
               /\ searchInput' = searchInput
               /\ dashboard'.currentSearch = trim(searchInput.value)
               /\ dashboard'.currentFilter = dashboard.currentFilter
               /\ RenderedAnew(storage', listView')
               /\ \A r \in Range(listView'.container) :
                    trim(searchInput.value) # <<>> =>
                      MatchesSearch(r, trim(searchInput.value))
          /\ dashboard'.currentSearch # dashboard.currentSearch =>
               call'.op = "search"
          /\ (timers # {} /\ timers' = {}) => call'.op = "search"
        ]_vars

\* an input event has arrived while the timeout of an earlier one was
\* pending: that timeout is gone, the new one has the whole interval to
\* run, and the list still shows the result of the search before
C22_Witness ==
  /\ call.op = "searchKey"
  /\ call.arg.pending = 1
  /\ \E t \in timers : t.id = debounceTimer /\ t.left = DebounceDelay
  /\ searchInput.value = <<"a", " ", "b">>
  /\ dashboard.currentSearch = <<"a">>
  /\ Len(listView.container) > 0

=============================================================================
